---- MODULE Spec2Model ----
(***************************************************************************)
(* Model of the CSV ingestion pipeline of src/app.py: import_csv_stream,   *)
(* the customers table created by db(), and SQLite's write transaction     *)
(* (one RESERVED lock per database file, rollback on an exception leaving  *)
(* the `with db() as con` block).                                          *)
(*                                                                         *)
(* A text is a sequence of one-character strings, a line of the CSV is the *)
(* sequence of its fields (csv.reader yields [] for a blank line), and a   *)
(* stream is the sequence of its lines, the header line first.             *)
(***************************************************************************)
EXTENDS Integers, Sequences, FiniteSets, TLC

\* ---------------------------------------------------------------- bounds
NumInv == 2        \* ingestion invocations (request threads) in one behaviour
MaxRows == 2       \* lines after the header in one stream
MaxRecords == 2    \* records in one /obs-event notification

Inv == 1..NumInv

\* ------------------------------------------------------- str operations
Whitespace == {" "}

LowerMap ==
  [c \in {"A","B","C","D","E","F","G","H","I","J","K","L","M","N","O","P","Q",
          "R","S","T","U","V","W","X","Y","Z"} |->
     CASE c = "A" -> "a" [] c = "B" -> "b" [] c = "C" -> "c" [] c = "D" -> "d"
       [] c = "E" -> "e" [] c = "F" -> "f" [] c = "G" -> "g" [] c = "H" -> "h"
       [] c = "I" -> "i" [] c = "J" -> "j" [] c = "K" -> "k" [] c = "L" -> "l"
       [] c = "M" -> "m" [] c = "N" -> "n" [] c = "O" -> "o" [] c = "P" -> "p"
       [] c = "Q" -> "q" [] c = "R" -> "r" [] c = "S" -> "s" [] c = "T" -> "t"
       [] c = "U" -> "u" [] c = "V" -> "v" [] c = "W" -> "w" [] c = "X" -> "x"
       [] c = "Y" -> "y" [] c = "Z" -> "z"]

\* str.lower()
lower(s) == [k \in 1..Len(s) |-> IF s[k] \in DOMAIN LowerMap THEN LowerMap[s[k]] ELSE s[k]]

RECURSIVE lstrip(_)
lstrip(s) == IF s # <<>> /\ Head(s) \in Whitespace THEN lstrip(Tail(s)) ELSE s

RECURSIVE rstrip(_)
rstrip(s) ==
  IF s # <<>> /\ s[Len(s)] \in Whitespace THEN rstrip(SubSeq(s, 1, Len(s) - 1)) ELSE s

\* str.strip()
strip(s) == rstrip(lstrip(s))

\* one or more characters, none of them "@" or whitespace: [^@\s]+
NoAtNoSpace(s) == s # <<>> /\ \A k \in 1..Len(s) : s[k] \notin (Whitespace \cup {"@"})

\* EMAIL_RE.match(s) for ^[^@\s]+@[^@\s]+\.[^@\s]+$
EMAIL_RE_match(s) ==
  \E a, d \in 1..Len(s) :
     /\ a < d
     /\ s[a] = "@"
     /\ s[d] = "."
     /\ NoAtNoSpace(SubSeq(s, 1, a - 1))
     /\ NoAtNoSpace(SubSeq(s, a + 1, d - 1))
     /\ NoAtNoSpace(SubSeq(s, d + 1, Len(s)))

Digit == {"0","1","2","3","4","5","6","7","8","9"}

DigitVal(c) ==
  CASE c = "0" -> 0 [] c = "1" -> 1 [] c = "2" -> 2 [] c = "3" -> 3 [] c = "4" -> 4
    [] c = "5" -> 5 [] c = "6" -> 6 [] c = "7" -> 7 [] c = "8" -> 8 [] c = "9" -> 9

Sign == {"+", "-"}

\* the digits part of s, after an optional sign
Unsigned(s) == IF s # <<>> /\ Head(s) \in Sign THEN Tail(s) ELSE s

\* int(s) does not raise ValueError: an optional sign, then digits, single
\* underscores allowed between digits (s is already stripped)
IsIntLiteral(s) ==
  LET u == Unsigned(s) IN
    /\ u # <<>>
    /\ \A k \in 1..Len(u) : u[k] \in Digit \cup {"_"}
    /\ u[1] \in Digit
    /\ u[Len(u)] \in Digit
    /\ \A k \in 1..(Len(u) - 1) : ~(u[k] = "_" /\ u[k + 1] = "_")

RECURSIVE DigitsValue(_, _)
DigitsValue(u, acc) ==
  IF u = <<>> THEN acc
  ELSE IF Head(u) = "_" THEN DigitsValue(Tail(u), acc)
  ELSE DigitsValue(Tail(u), 10 * acc + DigitVal(Head(u)))

\* int(s) where it does not raise
int(s) ==
  IF s # <<>> /\ Head(s) = "-" THEN 0 - DigitsValue(Unsigned(s), 0)
  ELSE DigitsValue(Unsigned(s), 0)


\* ------------------------------------------------------------ csv reader
\* the texts of the column names
T_name == <<"n","a","m","e">>
T_email == <<"e","m","a","i","l">>
T_age == <<"a","g","e">>

\* reader.fieldnames or []: the first line of the stream, None on an empty one
fieldnames(s) == IF s = <<>> THEN <<>> ELSE s[1]

required == {T_name, T_email, T_age}

\* the header check passing as soon as one required column is present
HeaderOk_AnyColumn(s) ==
  required \cap {lower(strip(fieldnames(s)[k])) : k \in 1..Len(fieldnames(s))} # {}

\* required.issubset(set([c.strip().lower() for c in reader.fieldnames or []]))
HeaderOk(s) ==
  required \subseteq {lower(strip(fieldnames(s)[k])) : k \in 1..Len(fieldnames(s))}

\* (row.get(key) or "") on the dict DictReader builds from the line: the value
\* under the LAST column called exactly key, None (here "") when the line is
\* too short to reach that column or no column has that name
get(fn, row, key) ==
  LET cols == {k \in 1..Len(fn) : fn[k] = key} IN
    IF cols = {} THEN <<>>
    ELSE LET c == CHOOSE k \in cols : \A m \in cols : m <= k IN
           IF c <= Len(row) THEN row[c] ELSE <<>>

\* DictReader.__next__ skips the lines csv.reader returns as []: the index of
\* the first line at or after `from` that is not blank, 0 when there is none
NextRow(s, from) ==
  LET rest == {k \in from..Len(s) : s[k] # <<>>} IN
    IF rest = {} THEN 0 ELSE CHOOSE k \in rest : \A m \in rest : k <= m

\* ------------------------------------------------------------ validation
NameTooShort == "name must be at least 2 characters"
InvalidEmail == "invalid email"
InvalidAge == "age must be an integer 1-120"      \* the source has a dash here
DuplicateEmail == "duplicate email (already imported)"
Valid == "valid"

\* validate without the range check on the age
validate_AnyAge(name, email, age_s) ==
  IF Len(name) < 2 THEN NameTooShort
  ELSE IF ~EMAIL_RE_match(email) THEN InvalidEmail
  ELSE IF ~IsIntLiteral(age_s) THEN InvalidAge
  ELSE Valid

\* validate with the email checked before the name
validate_EmailFirst(name, email, age_s) ==
  IF ~EMAIL_RE_match(email) THEN InvalidEmail
  ELSE IF Len(name) < 2 THEN NameTooShort
  ELSE IF ~IsIntLiteral(age_s) THEN InvalidAge
  ELSE IF int(age_s) < 1 \/ int(age_s) > 120 THEN InvalidAge
  ELSE Valid

\* the chain of checks of one row, first failure wins
validate(name, email, age_s) ==
  IF Len(name) < 2 THEN NameTooShort
  ELSE IF ~EMAIL_RE_match(email) THEN InvalidEmail
  ELSE IF ~IsIntLiteral(age_s) THEN InvalidAge
  ELSE IF int(age_s) < 1 \/ int(age_s) > 120 THEN InvalidAge
  ELSE Valid


\* ---------------------------------------------------------------- inputs
\* header lines
H_std == <<T_name, T_email, T_age>>
H_caps == <<<<"N","a","m","e">>, <<"E","m","a","i","l">>, <<"A","g","e">>>>
H_spaced == <<<<" ","n","a","m","e"," ">>, T_email, <<"a","g","e"," ">>>>
H_noage == <<T_name, T_email>>
H_extra == <<<<"i","d">>, T_name, T_email, T_age>>
H_swapped == <<T_age, T_email, T_name>>
H_twice == <<T_name, T_email, T_age, T_name>>

\* field texts
N_Al == <<"A","l">>
N_Bo == <<"B","o">>
N_A == <<"A">>
N_A_sp == <<" ","A"," ">>
N_Al_sp == <<" ","A","l"," ">>
E_a == <<"a","@","x",".","y">>
E_A_sp == <<" ","A","@","X",".","y"," ">>
E_b == <<"b","@","x",".","y">>
E_nodot == <<"a","@","x">>
E_space == <<"a"," ","b","@","x",".","y">>
E_twoat == <<"a","@","@","x",".","y">>
A_30 == <<"3","0">>
A_30_0 == <<"3","0",".","0">>
A_0 == <<"0">>
A_1 == <<"1">>
A_120_sp == <<" ","1","2","0"," ">>
A_121 == <<"1","2","1">>
A_200 == <<"2","0","0">>
A_neg == <<"-","5">>
A_plus == <<"+","5">>
A_under == <<"1","_","0">>
A_text == <<"x">>

Blank == <<>>

\* the lines concurrent invocations draw from: two valid rows and an invalid one
FewRows == { <<N_Al, E_a, A_30>>, <<N_Bo, E_b, A_1>>, <<N_Al, E_nodot, A_30>> }

\* the lines a single invocation draws from
ManyRows ==
  FewRows \cup
  { <<N_Bo, E_A_sp, A_120_sp>>, <<N_A, E_a, A_30>>, <<N_A_sp, E_a, A_30>>,
    <<N_A, E_nodot, A_0>>, <<N_Al, E_nodot, A_0>>, <<N_Al, E_space, A_30>>,
    <<N_Al, E_twoat, A_200>>, <<N_Al_sp, E_a, A_30_0>>, <<N_Al, E_a, A_0>>,
    <<N_Al, E_a, A_121>>, <<N_Al, E_a, A_neg>>, <<N_Al, E_a, A_plus>>,
    <<N_Al, E_a, A_text>>, <<N_Al, E_a, A_under>>, <<N_Al, E_a>>, <<N_Al, E_b, A_30, A_text>>,
    <<A_30, N_Al, E_a, A_1>>, <<N_A, E_a, A_30, N_Al>>, <<N_Al_sp, E_b, A_plus>>,
    Blank }

FewHeaders == {H_std}
ManyHeaders == {H_std, H_caps, H_spaced, H_noage, H_extra, H_swapped, H_twice, Blank}

RECURSIVE SeqsUpTo(_, _)
SeqsUpTo(S, n) ==
  IF n = 0 THEN {<<>>}
  ELSE LET shorter == SeqsUpTo(S, n - 1) IN
         shorter \cup {Append(q, x) : q \in shorter, x \in S}

\* the empty stream, and every header followed by at most MaxRows lines
Streams(headers, rows) ==
  {<<>>} \cup {<<h>> \o body : h \in headers, body \in SeqsUpTo(rows, MaxRows)}

\* ----------------------------------------------------------------- state
VARIABLES
  customers,   \* the committed rows of table customers, in id order
  pending,     \* pending[t]: rows inserted in t's open transaction, not committed
  writer,      \* the invocation holding the database's write lock, 0 when free
  pc,          \* pc[t]: "idle", "loop", "returned" or "raised"
  exc,         \* exc[t]: the exception t raised, "" when none
  stream,      \* stream[t]: the lines of text_stream
  lineno,      \* lineno[t]: index of the next line csv.reader reads
  i,           \* i[t]: enumerate's counter, the number of the next row
  ok,          \* ok[t]
  errors,      \* errors[t]: sequence of [row, msg]
  con,         \* con[t]: the connection db() returned: "none", "open" or "closed"
  request,     \* request[t]: the HTTP request thread t serves, kind "none" when free
  handler,     \* handler[t]: the locals of obs_event's loop: k, total_ok, total_err, details
  reply,       \* reply[t]: the response of t's request, status 0 while there is none
  uploads      \* the objects put_object stored in the MinIO bucket "uploads"

\* the state of the HTTP handlers
http == <<request, handler, reply, uploads>>

vars == <<customers, pending, writer, pc, exc, stream, lineno, i, ok, errors, con, http>>

\* no request, the loop of obs_event not entered, no response
NoRequest == [kind |-> "none", file |-> FALSE, filename |-> <<>>, records |-> <<>>]
NoLoop == [k |-> 0, total_ok |-> 0, total_err |-> 0, details |-> <<>>]
NoReply == [status |-> 0, body |-> ""]

\* no call has been made: the table db() creates on the first call is empty
Init ==
  /\ customers = <<>>
  /\ pending = [t \in Inv |-> <<>>]
  /\ writer = 0
  /\ pc = [t \in Inv |-> "idle"]
  /\ exc = [t \in Inv |-> ""]
  /\ stream = [t \in Inv |-> <<>>]
  /\ lineno = [t \in Inv |-> 2]
  /\ i = [t \in Inv |-> 2]
  /\ ok = [t \in Inv |-> 0]
  /\ errors = [t \in Inv |-> <<>>]
  /\ con = [t \in Inv |-> "none"]
  /\ request = [t \in Inv |-> NoRequest]
  /\ handler = [t \in Inv |-> NoLoop]
  /\ reply = [t \in Inv |-> NoReply]
  /\ uploads = <<>>

\* ------------------------------------------------------------ the row at hand
HasRow(t) == NextRow(stream[t], lineno[t]) # 0
Row(t) == stream[t][NextRow(stream[t], lineno[t])]
name(t) == strip(get(fieldnames(stream[t]), Row(t), T_name))
email(t) == lower(strip(get(fieldnames(stream[t]), Row(t), T_email)))
age_s(t) == strip(get(fieldnames(stream[t]), Row(t), T_age))
Outcome(t) == validate(name(t), email(t), age_s(t))

\* what t's connection reads: the committed rows and those of its own transaction
Visible(t) == customers \o pending[t]

\* a customers table without the UNIQUE constraint
EmailTaken_Never(t, e) == FALSE

\* uniqueness checked among the rows of the open transaction only
EmailTaken_OwnOnly(t, e) == \E k \in 1..Len(pending[t]) : pending[t][k].email = e

\* the UNIQUE constraint on customers.email
EmailTaken(t, e) == \E k \in 1..Len(Visible(t)) : Visible(t)[k].email = e

\* the INSERT given the fields as the reader returned them, not the stripped
\* and lower-cased values
NewRecord_Raw(t) ==
  [id |-> Len(Visible(t)) + 1,
   name |-> get(fieldnames(stream[t]), Row(t), T_name),
   email |-> get(fieldnames(stream[t]), Row(t), T_email),
   age |-> int(age_s(t)), inv |-> t, row |-> i[t]]

\* the row INSERT adds; id is AUTOINCREMENT; inv and row record where it came from
NewRecord(t) ==
  [id |-> Len(Visible(t)) + 1, name |-> name(t), email |-> email(t),
   age |-> int(age_s(t)), inv |-> t, row |-> i[t]]

\* ROLLBACK / COMMIT end t's transaction and free the write lock if t holds it
Unlocked(t) == IF writer = t THEN 0 ELSE writer

\* ---------------------------------------------------------------- actions
\* Call with a db() that drops the table before creating it
Call_Recreate(t, inputs) ==
  /\ pc[t] = "idle"
  /\ \E s \in inputs :
       /\ stream' = [stream EXCEPT ![t] = s]
       /\ IF HeaderOk(s)
          THEN /\ pc' = [pc EXCEPT ![t] = "loop"]
               /\ con' = [con EXCEPT ![t] = "open"]
               /\ exc' = exc
               /\ customers' = <<>>
          ELSE /\ pc' = [pc EXCEPT ![t] = "raised"]
               /\ exc' = [exc EXCEPT ![t] = "ValueError"]
               /\ con' = con
               /\ customers' = customers
  /\ UNCHANGED <<pending, writer, lineno, i, ok, errors, http>>

\* import_csv_stream(text_stream) is called: the header check, then db()
Call(t, inputs) ==
  /\ pc[t] = "idle"
  /\ \E s \in inputs :
       /\ stream' = [stream EXCEPT ![t] = s]
       /\ IF HeaderOk(s)
          THEN /\ pc' = [pc EXCEPT ![t] = "loop"]
               /\ con' = [con EXCEPT ![t] = "open"]
               /\ exc' = exc
          ELSE /\ pc' = [pc EXCEPT ![t] = "raised"]
               /\ exc' = [exc EXCEPT ![t] = "ValueError"]
               /\ con' = con
  /\ UNCHANGED <<customers, pending, writer, lineno, i, ok, errors, http>>

\* Reject reporting the line of the file (reader.line_num) in place of
\* enumerate's counter
Reject_LineNumber(t) ==
  /\ pc[t] = "loop"
  /\ HasRow(t)
  /\ Outcome(t) # Valid
  /\ errors' = [errors EXCEPT ![t] =
                  Append(@, [row |-> NextRow(stream[t], lineno[t]), msg |-> Outcome(t)])]
  /\ i' = [i EXCEPT ![t] = @ + 1]
  /\ lineno' = [lineno EXCEPT ![t] = NextRow(stream[t], @) + 1]
  /\ UNCHANGED <<customers, pending, writer, pc, exc, stream, ok, con, http>>

\* one iteration of the loop on a row that fails validation
Reject(t) ==
  /\ pc[t] = "loop"
  /\ HasRow(t)
  /\ Outcome(t) # Valid
  /\ errors' = [errors EXCEPT ![t] = Append(@, [row |-> i[t], msg |-> Outcome(t)])]
  /\ i' = [i EXCEPT ![t] = @ + 1]
  /\ lineno' = [lineno EXCEPT ![t] = NextRow(stream[t], @) + 1]
  /\ UNCHANGED <<customers, pending, writer, pc, exc, stream, ok, con, http>>

\* Raise with the rows inserted so far committed instead of rolled back
Raise_KeepRows(t, e) ==
  /\ pc' = [pc EXCEPT ![t] = "raised"]
  /\ exc' = [exc EXCEPT ![t] = e]
  /\ customers' = customers \o pending[t]
  /\ pending' = [pending EXCEPT ![t] = <<>>]
  /\ writer' = Unlocked(t)
  /\ UNCHANGED <<stream, lineno, i, ok, errors, con, http>>

\* the exception leaves the with block: rollback, and it reaches the caller;
\* i, ok and errors stay as the loop left them. The with block of a sqlite3
\* connection ends the transaction and does not close the connection.
Raise(t, e) ==
  /\ pc' = [pc EXCEPT ![t] = "raised"]
  /\ exc' = [exc EXCEPT ![t] = e]
  /\ pending' = [pending EXCEPT ![t] = <<>>]
  /\ writer' = Unlocked(t)
  /\ UNCHANGED <<customers, stream, lineno, i, ok, errors, con, http>>

\* Insert on a connection in autocommit mode: every row is committed at once
Insert_Autocommit(t) ==
  /\ pc[t] = "loop"
  /\ HasRow(t)
  /\ Outcome(t) = Valid
  /\ writer \in {0, t}
  /\ IF EmailTaken(t, email(t))
     THEN /\ errors' = [errors EXCEPT ![t] = Append(@, [row |-> i[t], msg |-> DuplicateEmail])]
          /\ UNCHANGED <<customers, ok>>
     ELSE /\ customers' = Append(customers, NewRecord(t))
          /\ ok' = [ok EXCEPT ![t] = @ + 1]
          /\ UNCHANGED errors
  /\ i' = [i EXCEPT ![t] = @ + 1]
  /\ lineno' = [lineno EXCEPT ![t] = NextRow(stream[t], @) + 1]
  /\ UNCHANGED <<pending, writer, pc, exc, stream, con, http>>

\* Insert with ok incremented before the INSERT is executed
Insert_CountsFirst(t) ==
  /\ pc[t] = "loop"
  /\ HasRow(t)
  /\ Outcome(t) = Valid
  /\ writer \in {0, t}
  /\ writer' = t
  /\ ok' = [ok EXCEPT ![t] = @ + 1]
  /\ IF EmailTaken(t, email(t))
     THEN /\ errors' = [errors EXCEPT ![t] = Append(@, [row |-> i[t], msg |-> DuplicateEmail])]
          /\ UNCHANGED pending
     ELSE /\ pending' = [pending EXCEPT ![t] = Append(@, NewRecord(t))]
          /\ UNCHANGED errors
  /\ i' = [i EXCEPT ![t] = @ + 1]
  /\ lineno' = [lineno EXCEPT ![t] = NextRow(stream[t], @) + 1]
  /\ UNCHANGED <<customers, pc, exc, stream, con, http>>

\* Insert without the except clause: the IntegrityError leaves the loop
Insert_DupAborts(t) ==
  /\ pc[t] = "loop"
  /\ HasRow(t)
  /\ Outcome(t) = Valid
  /\ writer \in {0, t}
  /\ IF EmailTaken(t, email(t))
     THEN Raise(t, "IntegrityError")
     ELSE /\ writer' = t
          /\ pending' = [pending EXCEPT ![t] = Append(@, NewRecord(t))]
          /\ ok' = [ok EXCEPT ![t] = @ + 1]
          /\ i' = [i EXCEPT ![t] = @ + 1]
          /\ lineno' = [lineno EXCEPT ![t] = NextRow(stream[t], @) + 1]
          /\ UNCHANGED <<customers, pc, exc, stream, errors, con, http>>

\* one iteration on a valid row: the INSERT runs (the write lock is free or
\* t's own) and either adds the row or fails with IntegrityError
Insert(t) ==
  /\ pc[t] = "loop"
  /\ HasRow(t)
  /\ Outcome(t) = Valid
  /\ writer \in {0, t}
  /\ writer' = t
  /\ IF EmailTaken(t, email(t))
     THEN /\ errors' = [errors EXCEPT ![t] = Append(@, [row |-> i[t], msg |-> DuplicateEmail])]
          /\ UNCHANGED <<pending, ok>>
     ELSE /\ pending' = [pending EXCEPT ![t] = Append(@, NewRecord(t))]
          /\ ok' = [ok EXCEPT ![t] = @ + 1]
          /\ UNCHANGED errors
  /\ i' = [i EXCEPT ![t] = @ + 1]
  /\ lineno' = [lineno EXCEPT ![t] = NextRow(stream[t], @) + 1]
  /\ UNCHANGED <<customers, pc, exc, stream, con, http>>

\* the INSERT of a valid row waits for another invocation's write lock, held
\* from that invocation's first INSERT to the end of its transaction; when the
\* connection's timeout (5 s) passes first: OperationalError, not caught by
\* the loop. When the lock is freed first, Insert runs.
LockTimeout(t) ==
  /\ pc[t] = "loop"
  /\ HasRow(t)
  /\ Outcome(t) = Valid
  /\ writer \notin {0, t}
  /\ Raise(t, "database is locked")

\* the INSERT of a valid row fails in the store for another reason (disk full,
\* I/O error): not an IntegrityError, not caught by the loop
InsertFault(t) ==
  /\ pc[t] = "loop"
  /\ HasRow(t)
  /\ Outcome(t) = Valid
  /\ writer \in {0, t}
  /\ Raise(t, "disk I/O error")

\* the reader is exhausted: con.commit(), the with block ends (a second
\* commit, the connection stays open), return ok, errors
Return(t) ==
  /\ pc[t] = "loop"
  /\ ~HasRow(t)
  /\ customers' = customers \o pending[t]
  /\ pending' = [pending EXCEPT ![t] = <<>>]
  /\ writer' = Unlocked(t)
  /\ pc' = [pc EXCEPT ![t] = "returned"]
  /\ UNCHANGED <<exc, stream, lineno, i, ok, errors, con, http>>

\* con.commit() of an open transaction fails in the store
CommitFault(t) ==
  /\ pc[t] = "loop"
  /\ ~HasRow(t)
  /\ writer = t
  /\ Raise(t, "disk I/O error")

\* nothing in the program closes the connection of a finished call: it is
\* closed when the interpreter's garbage collector finalises the object
Finalize(t) ==
  /\ pc[t] \in {"returned", "raised"}
  /\ con[t] = "open"
  /\ con' = [con EXCEPT ![t] = "closed"]
  /\ UNCHANGED <<customers, pending, writer, pc, exc, stream, lineno, i, ok, errors, http>>

\* invocations running concurrently against one database
Next ==
  \E t \in Inv :
    \/ Call(t, Streams(FewHeaders, FewRows))
    \/ Reject(t)
    \/ Insert(t)
    \/ LockTimeout(t)
    \/ InsertFault(t)
    \/ Return(t)
    \/ CommitFault(t)
    \/ Finalize(t)

Spec == Init /\ [][Next]_vars

\* one invocation on its own, over the whole range of headers and rows
NextAlone ==
  \/ Call(1, Streams(ManyHeaders, ManyRows))
  \/ Reject(1)
  \/ Insert(1)
  \/ InsertFault(1)
  \/ Return(1)
  \/ CommitFault(1)
  \/ Finalize(1)

SpecAlone == Init /\ [][NextAlone]_vars


\* a three-row file: a good row, a row whose email has no dot after the "@",
\* a row whose age is above 120
R_Alice ==
  <<<<"A","l","i","c","e">>,
    <<"a","l","i","c","e","@","e","x","a","m","p","l","e",".","c","o","m">>, <<"3","0">>>>
R_Bob == <<<<"B","o","b">>, <<"b","o","b","@","e","x","a","m","p","l","e">>, <<"2","5">>>>
R_Cara ==
  <<<<"C","a","r","a">>,
    <<"c","a","r","a","@","e","x","a","m","p","l","e",".","c","o","m">>, <<"2","0","0">>>>
Scenario == <<H_std, R_Alice, R_Bob, R_Cara>>

\* the header name,email,age followed by up to as many lines as Scenario
\* has, each one of its rows or a blank line
ScenarioStreams ==
  {<<H_std>> \o body :
     body \in SeqsUpTo({R_Alice, R_Bob, R_Cara, Blank}, Len(Tail(Scenario)))}

\* one invocation on an empty store, over the files made of Scenario's rows
NextScenario ==
  \/ Call(1, ScenarioStreams)
  \/ Reject(1)
  \/ Insert(1)
  \/ InsertFault(1)
  \/ Return(1)
  \/ CommitFault(1)
  \/ Finalize(1)

SpecScenario == Init /\ [][NextScenario]_vars


\* ------------------------------------------------------------- listings
\* str(n) for n >= 0, as csv.writer writes an integer
RECURSIVE str(_)
str(n) ==
  LET d == CHOOSE c \in Digit : DigitVal(c) = n % 10 IN
    IF n < 10 THEN <<d>> ELSE Append(str(n \div 10), d)

\* ORDER BY id: the k-th record is the one with k ids up to its own
OrderById(table) ==
  [k \in 1..Len(table) |->
     table[CHOOSE j \in 1..Len(table) :
             Cardinality({m \in 1..Len(table) : table[m].id <= table[j].id}) = k]]

\* the column names export() writes first; created_at, the time of the INSERT,
\* is left out of the model's records and of its listings
T_export == <<T_name, T_email, T_age>>

\* export(): the header line, then one line per committed record, by id
export ==
  LET rows == OrderById(customers) IN
    <<T_export>> \o [k \in 1..Len(rows) |-> <<rows[k].name, rows[k].email, str(rows[k].age)>>]

\* LIMIT 50 of the query of home() and upload()
PageLimit == 50

\* ORDER BY id DESC LIMIT 50: the newest records first
Latest(table) ==
  LET rows == OrderById(table)
      n == IF Len(rows) < PageLimit THEN Len(rows) ELSE PageLimit
  IN [k \in 1..n |-> rows[Len(rows) + 1 - k]]

\* the file sample() sends
sample_csv ==
  <<H_std, R_Alice,
    <<<<"B","o","b">>, <<"b","o","b","@","e","x","a","m","p","l","e",".","o","r","g">>,
      <<"2","5">>>>>>


\* ------------------------------------------------------------ the handlers
\* str.endswith
endswith(s, suffix) ==
  Len(s) >= Len(suffix) /\ SubSeq(s, Len(s) - Len(suffix) + 1, Len(s)) = suffix

DotCsv == <<".","c","s","v">>

\* the test ".csv" in name.lower() in place of endswith
IsCsv_Contains(fn) ==
  \E a \in 1..Len(fn) : endswith(SubSeq(lower(fn), 1, a), DotCsv)

\* name.lower().endswith(".csv")
IsCsv(fn) == endswith(lower(fn), DotCsv)

\* names of uploaded files and keys of objects
F_csv == <<"a",".","c","s","v">>
F_CSV == <<"A",".","C","s","V">>
F_csv_txt == <<"a",".","c","s","v",".","t","x","t">>
UploadNames == {F_csv, F_CSV, F_csv_txt, <<>>}

\* the records of a notification, as obs_event reads them: bucket is
\* rec.s3.bucket.name and key is rec.s3.object.key, the empty text when the
\* record has none
B_uploads == <<"u">>
Records ==
  { [bucket |-> B_uploads, key |-> F_CSV], [bucket |-> B_uploads, key |-> F_csv_txt],
    [bucket |-> B_uploads, key |-> <<>>] }
Notifications == SeqsUpTo(Records, MaxRecords)

\* the contents of uploaded files and of fetched objects: an empty file, a
\* file with a valid and an invalid row, a file with one valid row
Files ==
  { <<>>, <<H_std, <<N_Al, E_a, A_30>>, <<N_Al, E_nodot, A_30>>>>, <<H_std, <<N_Bo, E_b, A_1>>>> }

HeaderMessage == "Header must include: name,email,age"

\* POST /upload up to the call of import_csv_stream: 400 without a file part
\* or for a name that does not end in .csv
Upload(t) ==
  /\ request[t].kind = "none"
  /\ \/ /\ request' = [request EXCEPT ![t] = [NoRequest EXCEPT !.kind = "upload"]]
        /\ reply' = [reply EXCEPT ![t] = [status |-> 400, body |-> "No file part"]]
     \/ \E fn \in UploadNames :
          /\ request' = [request EXCEPT ![t] =
                           [NoRequest EXCEPT !.kind = "upload", !.file = TRUE, !.filename = fn]]
          /\ reply' = IF IsCsv(fn) THEN reply
                      ELSE [reply EXCEPT ![t] = [status |-> 400, body |-> "Please upload a .csv file"]]
  /\ UNCHANGED <<customers, pending, writer, pc, exc, stream, lineno, i, ok, errors, con,
                 handler, uploads>>

\* upload() reads the file and calls import_csv_stream on it
UploadCall(t) ==
  /\ request[t].kind = "upload"
  /\ reply[t].status = 0
  /\ Call(t, Files)

\* upload() after the call: 400 for the ValueError of the header, no handler
\* for another exception (the framework answers 500); after a summary the
\* file is put in the bucket (a failure of MinIO is caught) and the page with
\* the summary and the newest records is rendered
UploadReply(t) ==
  /\ request[t].kind = "upload"
  /\ reply[t].status = 0
  /\ pc[t] \in {"returned", "raised"}
  /\ IF pc[t] = "raised"
     THEN /\ reply' = [reply EXCEPT ![t] =
                         IF exc[t] = "ValueError"
                         THEN [status |-> 400, body |-> HeaderMessage]
                         ELSE [status |-> 500, body |-> exc[t]]]
          /\ uploads' = uploads
     ELSE /\ \/ uploads' = Append(uploads, [name |-> request[t].filename, data |-> stream[t]])
             \/ uploads' = uploads
          /\ reply' = [reply EXCEPT ![t] =
                         [status |-> 200,
                          body |-> [summary |-> [ok |-> ok[t], err |-> Len(errors[t])],
                                    errors |-> errors[t], rows |-> Latest(customers)]]]
  /\ UNCHANGED <<customers, pending, writer, pc, exc, stream, lineno, i, ok, errors, con,
                 request, handler>>

\* POST /obs-event: the notification's records are read, the loop starts;
\* one notification is in flight at a time
ObsEvent(t) ==
  /\ request[t].kind = "none"
  /\ \A u \in Inv : request[u].kind # "obs"
  /\ \E recs \in Notifications :
       request' = [request EXCEPT ![t] = [NoRequest EXCEPT !.kind = "obs", !.records = recs]]
  /\ handler' = [handler EXCEPT ![t] = [NoLoop EXCEPT !.k = 1]]
  /\ UNCHANGED <<customers, pending, writer, pc, exc, stream, lineno, i, ok, errors, con,
                 reply, uploads>>

\* the loop of obs_event is at a record
AtRecord(t) ==
  /\ request[t].kind = "obs"
  /\ pc[t] = "idle"
  /\ handler[t].k \in 1..Len(request[t].records)

rec(t) == request[t].records[handler[t].k]

\* an iteration that ends at a continue: a record without bucket or key is
\* passed over, an object that is no .csv is listed as skipped
ObsSkip(t) ==
  /\ AtRecord(t)
  /\ rec(t).bucket = <<>> \/ rec(t).key = <<>> \/ ~IsCsv(rec(t).key)
  /\ handler' = [handler EXCEPT ![t].k = @ + 1,
                                ![t].details =
                                  IF rec(t).bucket = <<>> \/ rec(t).key = <<>> THEN @
                                  ELSE Append(@, [bucket |-> rec(t).bucket, object |-> rec(t).key,
                                                  skipped |-> "not a .csv"])]
  /\ UNCHANGED <<customers, pending, writer, pc, exc, stream, lineno, i, ok, errors, con,
                 request, reply, uploads>>

\* get_object or the read of its response raises: caught, listed as error
ObsFetchFail(t) ==
  /\ AtRecord(t)
  /\ rec(t).bucket # <<>> /\ rec(t).key # <<>> /\ IsCsv(rec(t).key)
  /\ handler' = [handler EXCEPT ![t].k = @ + 1,
                                ![t].details =
                                  Append(@, [bucket |-> rec(t).bucket, object |-> rec(t).key,
                                             error |-> "S3Error"])]
  /\ UNCHANGED <<customers, pending, writer, pc, exc, stream, lineno, i, ok, errors, con,
                 request, reply, uploads>>

\* the object is fetched and import_csv_stream is called on its content
ObsImport(t) ==
  /\ AtRecord(t)
  /\ rec(t).bucket # <<>> /\ rec(t).key # <<>> /\ IsCsv(rec(t).key)
  /\ Call(t, Files)

\* ObsCollect without the except clause: the exception of the import ends
\* the handler, the framework answers 500
ObsCollect_Uncaught(t) ==
  /\ request[t].kind = "obs"
  /\ pc[t] \in {"returned", "raised"}
  /\ IF pc[t] = "returned"
     THEN /\ handler' = [handler EXCEPT ![t].k = @ + 1,
                                        ![t].total_ok = @ + ok[t],
                                        ![t].total_err = @ + Len(errors[t]),
                                        ![t].details =
                                          Append(@, [bucket |-> rec(t).bucket, object |-> rec(t).key,
                                                     inserted |-> ok[t], errors |-> Len(errors[t])])]
          /\ reply' = reply
     ELSE /\ handler' = [handler EXCEPT ![t].k = Len(request[t].records) + 1]
          /\ reply' = [reply EXCEPT ![t] = [status |-> 500, body |-> exc[t]]]
  /\ pc' = [pc EXCEPT ![t] = "idle"]
  /\ exc' = [exc EXCEPT ![t] = ""]
  /\ stream' = [stream EXCEPT ![t] = <<>>]
  /\ lineno' = [lineno EXCEPT ![t] = 2]
  /\ i' = [i EXCEPT ![t] = 2]
  /\ ok' = [ok EXCEPT ![t] = 0]
  /\ errors' = [errors EXCEPT ![t] = <<>>]
  /\ UNCHANGED <<customers, pending, writer, con, request, uploads>>

\* the call has returned or raised: the summary is added to the totals and
\* listed, or the exception is caught and listed as error; the loop goes on
\* and the locals of the call are gone
ObsCollect(t) ==
  /\ request[t].kind = "obs"
  /\ pc[t] \in {"returned", "raised"}
  /\ handler' =
       IF pc[t] = "returned"
       THEN [handler EXCEPT ![t].k = @ + 1,
                            ![t].total_ok = @ + ok[t],
                            ![t].total_err = @ + Len(errors[t]),
                            ![t].details =
                              Append(@, [bucket |-> rec(t).bucket, object |-> rec(t).key,
                                         inserted |-> ok[t], errors |-> Len(errors[t])])]
       ELSE [handler EXCEPT ![t].k = @ + 1,
                            ![t].details =
                              Append(@, [bucket |-> rec(t).bucket, object |-> rec(t).key,
                                         error |-> IF exc[t] = "ValueError" THEN HeaderMessage
                                                   ELSE exc[t]])]
  /\ pc' = [pc EXCEPT ![t] = "idle"]
  /\ exc' = [exc EXCEPT ![t] = ""]
  /\ stream' = [stream EXCEPT ![t] = <<>>]
  /\ lineno' = [lineno EXCEPT ![t] = 2]
  /\ i' = [i EXCEPT ![t] = 2]
  /\ ok' = [ok EXCEPT ![t] = 0]
  /\ errors' = [errors EXCEPT ![t] = <<>>]
  /\ UNCHANGED <<customers, pending, writer, con, request, reply, uploads>>

\* the loop is over: 200 with the totals and the items
ObsReply(t) ==
  /\ request[t].kind = "obs"
  /\ pc[t] = "idle"
  /\ handler[t].k > Len(request[t].records)
  /\ reply[t].status = 0
  /\ reply' = [reply EXCEPT ![t] =
                 [status |-> 200,
                  body |-> [ok |-> handler[t].total_ok, errors |-> handler[t].total_err,
                            items |-> handler[t].details]]]
  /\ UNCHANGED <<customers, pending, writer, pc, exc, stream, lineno, i, ok, errors, con,
                 request, handler, uploads>>

\* GET /: the page with the newest records
home(t) ==
  /\ request[t].kind = "none"
  /\ request' = [request EXCEPT ![t] = [NoRequest EXCEPT !.kind = "home"]]
  /\ reply' = [reply EXCEPT ![t] = [status |-> 200, body |-> Latest(customers)]]
  /\ UNCHANGED <<customers, pending, writer, pc, exc, stream, lineno, i, ok, errors, con,
                 handler, uploads>>

\* GET /export: the listing
Export(t) ==
  /\ request[t].kind = "none"
  /\ request' = [request EXCEPT ![t] = [NoRequest EXCEPT !.kind = "export"]]
  /\ reply' = [reply EXCEPT ![t] = [status |-> 200, body |-> export]]
  /\ UNCHANGED <<customers, pending, writer, pc, exc, stream, lineno, i, ok, errors, con,
                 handler, uploads>>

\* GET /sample: the fixed file
sample(t) ==
  /\ request[t].kind = "none"
  /\ request' = [request EXCEPT ![t] = [NoRequest EXCEPT !.kind = "sample"]]
  /\ reply' = [reply EXCEPT ![t] = [status |-> 200, body |-> sample_csv]]
  /\ UNCHANGED <<customers, pending, writer, pc, exc, stream, lineno, i, ok, errors, con,
                 handler, uploads>>

\* GET /health
health(t) ==
  /\ request[t].kind = "none"
  /\ request' = [request EXCEPT ![t] = [NoRequest EXCEPT !.kind = "health"]]
  /\ reply' = [reply EXCEPT ![t] = [status |-> 200, body |-> "OK"]]
  /\ UNCHANGED <<customers, pending, writer, pc, exc, stream, lineno, i, ok, errors, con,
                 handler, uploads>>

\* the request threads of the server: each serves one request
NextHttp ==
  \E t \in Inv :
    \/ Upload(t)
    \/ UploadCall(t)
    \/ UploadReply(t)
    \/ ObsEvent(t)
    \/ ObsSkip(t)
    \/ ObsFetchFail(t)
    \/ ObsImport(t)
    \/ ObsCollect(t)
    \/ ObsReply(t)
    \/ home(t)
    \/ Export(t)
    \/ sample(t)
    \/ health(t)
    \/ Reject(t)
    \/ Insert(t)
    \/ LockTimeout(t)
    \/ InsertFault(t)
    \/ Return(t)
    \/ CommitFault(t)
    \/ Finalize(t)

SpecHttp == Init /\ [][NextHttp]_vars


\* ------------------------------------------------- outcomes, row by row
\* the data rows of a stream with a header: its lines after the first, blank
\* lines left out; row number r is DataRows(s)[r - 1]
DataRows(s) == SelectSeq(Tail(s), LAMBDA l : l # <<>>)

\* the row numbers t's loop has completed
Processed(t) == 2..(i[t] - 1)

\* the entries of errors[t] for row r, and their messages
ErrorsAt(t, r) == {k \in 1..Len(errors[t]) : errors[t][k].row = r}
Reasons(t, r) == {errors[t][k].msg : k \in ErrorsAt(t, r)}

\* the text of column col in row r, as the loop reads it
FieldAt(t, r, col) == get(fieldnames(stream[t]), DataRows(stream[t])[r - 1], col)

NameShort(t, r) == Len(strip(FieldAt(t, r, T_name))) < 2
EmailBad(t, r) == ~EMAIL_RE_match(lower(strip(FieldAt(t, r, T_email))))
AgeBad(t, r) ==
  LET a == strip(FieldAt(t, r, T_age)) IN
    ~IsIntLiteral(a) \/ int(a) \notin 1..120

\* the rows of a table (a sequence of records) that invocation t inserted
RowsOf(table, t) == {k \in 1..Len(table) : table[k].inv = t}

\* C1: every completed row has the outcome of the ordered chain name, email,
\* age: a short name is reported NameTooShort whatever the email and age are,
\* else a malformed email is reported InvalidEmail whatever the age is, else an
\* age that is no integer literal or outside 1..120 is reported InvalidAge; a
\* failing row has exactly one entry in errors, and every record that reached
\* the store comes from a row passing all three checks.
C1_ValidationOrder ==
  \A t \in Inv :
    /\ \A r \in Processed(t) :
         /\ Cardinality(ErrorsAt(t, r)) <= 1
         /\ NameShort(t, r) => Reasons(t, r) = {NameTooShort}
         /\ ~NameShort(t, r) /\ EmailBad(t, r) => Reasons(t, r) = {InvalidEmail}
         /\ ~NameShort(t, r) /\ ~EmailBad(t, r) /\ AgeBad(t, r)
              => Reasons(t, r) = {InvalidAge}
         /\ ~NameShort(t, r) /\ ~EmailBad(t, r) /\ ~AgeBad(t, r)
              => Reasons(t, r) \subseteq {DuplicateEmail}
    /\ \A k \in RowsOf(Visible(t), t) :
         LET r == Visible(t)[k].row IN
           r \in Processed(t) /\ ~NameShort(t, r) /\ ~EmailBad(t, r) /\ ~AgeBad(t, r)

\* a row failing all three checks was reported NameTooShort, the next one,
\* failing the email and age checks, InvalidEmail
C1_Witness ==
  /\ pc[1] = "returned"
  /\ stream[1] = <<H_std, <<N_A, E_nodot, A_0>>, <<N_Al, E_nodot, A_0>>>>
  /\ errors[1] = <<[row |-> 2, msg |-> NameTooShort], [row |-> 3, msg |-> InvalidEmail]>>


\* ------------------------------------------------------------ duplicates
\* row r of t's stream passes the three checks
RowValid(t, r) == ~NameShort(t, r) /\ ~EmailBad(t, r) /\ ~AgeBad(t, r)

\* the normalised email of row r of t's stream
EmailAt(t, r) == lower(strip(FieldAt(t, r, T_email)))

\* the email of the row t is about to process is in the store already: in a
\* committed record, or in an earlier valid row of the same stream
AlreadyStored(t) ==
  \/ \E k \in 1..Len(customers) : customers[k].email = EmailAt(t, i[t])
  \/ \E r \in Processed(t) : RowValid(t, r) /\ EmailAt(t, r) = EmailAt(t, i[t])

\* the errors of the store that are no uniqueness conflict
StoreFaults == {"database is locked", "disk I/O error"}

\* C2: when the loop takes a valid row whose normalised email is already in
\* the store (from an earlier invocation or an earlier row of the file) and
\* the store answers the INSERT (no lock timeout, no I/O error), the row is
\* appended to errors as DuplicateEmail, nothing is inserted, ok is unchanged
\* and the loop goes on.
C2_DuplicateReported ==
  [][\A t \in Inv :
       (/\ pc[t] = "loop"
        /\ i[t] - 1 <= Len(DataRows(stream[t]))
        /\ <<pc'[t], i'[t]>> # <<pc[t], i[t]>>
        /\ exc'[t] \notin StoreFaults
        /\ RowValid(t, i[t])
        /\ AlreadyStored(t))
       => /\ errors'[t] = Append(errors[t], [row |-> i[t], msg |-> DuplicateEmail])
          /\ ok'[t] = ok[t]
          /\ pending'[t] = pending[t]
          /\ customers' = customers
          /\ pc'[t] = "loop"]_vars

\* invocation 1 inserted a row and reported its second occurrence; invocation
\* 2 reported the same email as a duplicate and inserted the row after it
C2_Witness ==
  /\ pc[1] = "returned" /\ pc[2] = "returned"
  /\ stream[1] = <<H_std, <<N_Al, E_a, A_30>>, <<N_Al, E_a, A_30>>>>
  /\ ok[1] = 1 /\ errors[1] = <<[row |-> 3, msg |-> DuplicateEmail]>>
  /\ stream[2] = <<H_std, <<N_Al, E_a, A_30>>, <<N_Bo, E_b, A_1>>>>
  /\ ok[2] = 1 /\ errors[2] = <<[row |-> 2, msg |-> DuplicateEmail]>>
  /\ Len(customers) = 2 /\ customers[2].inv = 2 /\ customers[2].row = 3


\* ----------------------------------------------------------- concurrency
Finished == {"returned", "raised"}

\* the normalised emails of the valid rows of t's stream
ValidEmails(t) ==
  IF HeaderOk(stream[t])
  THEN {EmailAt(t, r) : r \in {q \in 2..(Len(DataRows(stream[t])) + 1) : RowValid(t, q)}}
  ELSE {}

\* row r of t's stream is the one stored under its email
StoredFrom(t, r) ==
  \E k \in 1..Len(customers) :
    customers[k].email = EmailAt(t, r) /\ customers[k].inv = t /\ customers[k].row = r

\* every valid row of t with email e is the stored one or is reported duplicate
WonOrDuplicate(t, e) ==
  \A r \in 2..(Len(DataRows(stream[t])) + 1) :
    RowValid(t, r) /\ EmailAt(t, r) = e
      => StoredFrom(t, r) \/ DuplicateEmail \in Reasons(t, r)

\* C3: two invocations whose streams share a valid email, both over and
\* neither hit by an I/O error of the disk, have both returned their summary;
\* the email is stored once and every other row with it is reported
\* DuplicateEmail.
C3_OneWinnerOthersDuplicate ==
  \A t, u \in Inv :
    (/\ t # u
     /\ pc[t] \in Finished /\ pc[u] \in Finished
     /\ exc[t] # "disk I/O error" /\ exc[u] # "disk I/O error"
     /\ ValidEmails(t) \cap ValidEmails(u) # {})
    => /\ pc[t] = "returned" /\ pc[u] = "returned"
       /\ \A e \in ValidEmails(t) \cap ValidEmails(u) :
            /\ Cardinality({k \in 1..Len(customers) : customers[k].email = e}) = 1
            /\ WonOrDuplicate(t, e)
            /\ WonOrDuplicate(u, e)

\* C4: no two committed customer records have the same email (nor the same id),
\* and no connection sees two such rows inside its transaction.
C4_EmailUnique ==
  /\ \A j, k \in 1..Len(customers) :
       j # k => customers[j].email # customers[k].email /\ customers[j].id # customers[k].id
  /\ \A t \in Inv : \A j, k \in 1..Len(Visible(t)) :
       j # k => Visible(t)[j].email # Visible(t)[k].email

\* two records are committed, and a later invocation had an insert rejected as
\* a duplicate before it was aborted by a store fault
C4_Witness ==
  /\ Len(customers) = 2
  /\ pc[2] = "raised" /\ exc[2] = "disk I/O error"
  /\ errors[2] = <<[row |-> 2, msg |-> DuplicateEmail]>>


\* ---------------------------------------------------- faults and atomicity
\* the rows t's loop completed without an entry in errors: its inserts
InsertedRows(t) == {r \in Processed(t) : ErrorsAt(t, r) = {}}

\* the row numbers of t's records in the committed table
CommittedRows(t) == {customers[k].row : k \in RowsOf(customers, t)}

\* C5 as claimed: after a store fault the rows the invocation had inserted
\* before it are still in the store.
C5_InsertedRowsRemain ==
  \A t \in Inv :
    pc[t] = "raised" /\ exc[t] \in StoreFaults => CommittedRows(t) = InsertedRows(t)

\* C5 as amended: after a store fault the invocation has stopped at the row of
\* the fault with the error raised to the caller, and none of the rows it had
\* inserted is in the store: its transaction is rolled back and ended.
C5_AbortRollsBack ==
  \A t \in Inv :
    pc[t] = "raised" /\ exc[t] \in StoreFaults
      => /\ CommittedRows(t) = {}
         /\ pending[t] = <<>>
         /\ writer # t
         /\ ok[t] + Len(errors[t]) = i[t] - 2
         /\ ok[t] = Cardinality(InsertedRows(t))

\* invocation 1 inserted its first row, the insert of its second row failed
\* with an I/O error, and the store holds nothing of it
C5_Witness ==
  /\ pc[1] = "raised" /\ exc[1] = "disk I/O error"
  /\ stream[1] = <<H_std, <<N_Al, E_a, A_30>>, <<N_Bo, E_b, A_1>>>>
  /\ ok[1] = 1 /\ i[1] = 3
  /\ customers = <<>>

\* S is T or a lower part of T
PrefixOf(S, T) == S \subseteq T /\ \A x \in S, y \in T : y < x => y \in S

\* C6: the committed table never shows a part of what an invocation commits:
\* it holds none of an invocation's rows or, once the invocation has returned,
\* all of its inserts; after an abort what it holds of the invocation is a
\* prefix, in row order, of its inserts.
C6_AtomicUnit ==
  \A t \in Inv :
    /\ \/ CommittedRows(t) = {}
       \/ pc[t] = "returned" /\ CommittedRows(t) = InsertedRows(t)
    /\ pc[t] = "returned" => CommittedRows(t) = InsertedRows(t)
    /\ pc[t] = "raised" => PrefixOf(CommittedRows(t), InsertedRows(t))

\* invocation 2 has an open transaction with two inserts that the committed
\* table does not show, while invocation 1 has committed nothing yet
C6_Witness ==
  /\ pc[2] = "loop" /\ Len(pending[2]) = 2 /\ writer = 2
  /\ pc[1] = "loop"
  /\ customers = <<>>


\* ------------------------------------------------------ header and summary
\* the stream has no header line, or a required column is in none of its
\* columns once trimmed and lower-cased
MissingColumn(s) ==
  \/ s = <<>>
  \/ \E c \in required : \A k \in 1..Len(s[1]) : lower(strip(s[1][k])) # c

\* C7: a call on a stream whose header is missing or lacks one of name, email,
\* age has raised the header error with no row read, no outcome, nothing
\* inserted and no transaction; a header with all three columns, whatever else
\* it holds, never raises it.
C7_HeaderError ==
  \A t \in Inv :
    pc[t] # "idle" =>
      /\ MissingColumn(stream[t]) =>
           /\ pc[t] = "raised" /\ exc[t] = "ValueError"
           /\ i[t] = 2 /\ lineno[t] = 2
           /\ ok[t] = 0 /\ errors[t] = <<>>
           /\ pending[t] = <<>> /\ CommittedRows(t) = {} /\ writer # t
      /\ ~MissingColumn(stream[t]) => exc[t] # "ValueError"

\* the header name,email is followed by two valid rows and the call has raised
C7_Witness ==
  /\ pc[1] = "raised" /\ exc[1] = "ValueError"
  /\ stream[1] = <<H_noage, <<N_Al, E_a, A_30>>, <<N_Bo, E_b, A_1>>>>
  /\ customers = <<>>

Taxonomy == {NameTooShort, InvalidEmail, InvalidAge, DuplicateEmail}

\* C8: in a returned summary every data row has exactly one outcome: ok plus
\* the number of errors is the number of data rows, each row is either in
\* errors once or committed, errors is in increasing row order with reasons
\* of the taxonomy, and ok is the number of records the call added; with no
\* data row the summary is 0 and [].
C8_Summary ==
  \A t \in Inv :
    pc[t] = "returned" =>
      LET n == Len(DataRows(stream[t])) IN
        /\ ok[t] + Len(errors[t]) = n
        /\ \A r \in 2..(n + 1) :
             \/ Cardinality(ErrorsAt(t, r)) = 1 /\ r \notin CommittedRows(t)
             \/ ErrorsAt(t, r) = {} /\ r \in CommittedRows(t)
        /\ \A j, k \in 1..Len(errors[t]) : j < k => errors[t][j].row < errors[t][k].row
        /\ \A k \in 1..Len(errors[t]) :
             errors[t][k].msg \in Taxonomy /\ errors[t][k].row \in 2..(n + 1)
        /\ ok[t] = Cardinality(RowsOf(customers, t))
        /\ n = 0 => ok[t] = 0 /\ errors[t] = <<>>

\* a returned summary with one insert and one failure
C8_Witness ==
  /\ pc[1] = "returned"
  /\ stream[1] = <<H_std, <<N_Al, E_a, A_30>>, <<N_Bo, E_A_sp, A_120_sp>>>>
  /\ ok[1] = 1 /\ errors[1] = <<[row |-> 3, msg |-> DuplicateEmail]>>
  /\ Len(customers) = 1

\* C9: when an invocation inserted every row of its stream, another
\* invocation that returns from the same stream has inserted nothing, reports
\* every row as DuplicateEmail and has no record in the store.
C9_Reimport ==
  \A t, u \in Inv :
    (/\ t # u
     /\ pc[t] = "returned" /\ pc[u] = "returned"
     /\ stream[t] = stream[u]
     /\ DataRows(stream[u]) # <<>>
     /\ ok[u] = Len(DataRows(stream[u])))
    => /\ ok[t] = 0
       /\ Len(errors[t]) = Len(DataRows(stream[t]))
       /\ \A k \in 1..Len(errors[t]) :
            errors[t][k].msg = DuplicateEmail /\ errors[t][k].row = k + 1
       /\ CommittedRows(t) = {}
       /\ Len(customers) = ok[u] + Cardinality({k \in 1..Len(customers) : customers[k].inv \notin {t, u}})

\* the stream of two valid rows was imported by 1 and imported again by 2
C9_Witness ==
  /\ pc[1] = "returned" /\ pc[2] = "returned"
  /\ stream[1] = <<H_std, <<N_Al, E_a, A_30>>, <<N_Bo, E_b, A_1>>>>
  /\ stream[2] = stream[1]
  /\ ok[1] = 2 /\ ok[2] = 0
  /\ errors[2] = <<[row |-> 2, msg |-> DuplicateEmail], [row |-> 3, msg |-> DuplicateEmail]>>
  /\ Len(customers) = 2

\* the header with every column name trimmed and lower-cased
Normalised(fn) == [k \in 1..Len(fn) |-> lower(strip(fn[k]))]

\* the outcome of row r of t's stream when its fields are read under the
\* trimmed lower-cased column names
OutcomeUnder(t, r) ==
  LET fn == Normalised(fieldnames(stream[t]))
      row == DataRows(stream[t])[r - 1]
  IN validate(strip(get(fn, row, T_name)), lower(strip(get(fn, row, T_email))),
              strip(get(fn, row, T_age)))

\* C10: under a header that is name,email,age up to letter case and
\* surrounding spaces, every completed row has the outcome its fields have
\* under the header name,email,age: its validation failure, or none but
\* DuplicateEmail when its fields are valid.
C10_HeaderCaseInsensitive ==
  \A t \in Inv :
    pc[t] # "idle" /\ stream[t] # <<>> /\ Normalised(fieldnames(stream[t])) = H_std
      => \A r \in Processed(t) :
           IF OutcomeUnder(t, r) = Valid
           THEN Reasons(t, r) \subseteq {DuplicateEmail}
           ELSE Reasons(t, r) = {OutcomeUnder(t, r)}

\* --------------------------------------------------- C11: release on exit
\* C11: when an invocation has handed control back to its caller (returned
\* or raised), none of its resources is left: no uncommitted rows of an open
\* transaction, no write lock, and the connection db() opened for it is closed.
\* The transaction and the lock do end on every path; the connection does not:
\* the with block never closes it.
C11_ReleasedOnExit ==
  \A t \in Inv :
    pc[t] \in Finished =>
      /\ pending[t] = <<>>
      /\ writer # t
      /\ con[t] # "open"

\* --------------------------------------------------- C12: round trip
\* the line of the listing for row r of t's stream: the trimmed name, the
\* trimmed lower-cased email and the age as the decimal text of the integer
ListedAs(t, r) ==
  <<strip(FieldAt(t, r, T_name)), lower(strip(FieldAt(t, r, T_email))),
    str(int(strip(FieldAt(t, r, T_age))))>>

\* the positions in the listing (header not counted) of the record of row r
ListedAt(t, r) ==
  LET rows == OrderById(customers) IN
    {k \in 1..Len(rows) : rows[k].inv = t /\ rows[k].row = r}

\* C12: once an invocation has returned its summary, export lists every row
\* the summary counts as inserted: each on one line, with the normalized
\* values of its fields; the lines are in row order, and the identifiers of
\* the records grow along the listing.
C12_RoundTrip ==
  LET rows == OrderById(customers) IN
    /\ Head(export) = T_export
    /\ Len(export) = Len(customers) + 1
    /\ \A k \in 1..(Len(rows) - 1) : rows[k].id < rows[k + 1].id
    /\ \A t \in Inv :
         pc[t] = "returned" =>
           /\ Cardinality(InsertedRows(t)) = ok[t]
           /\ \A r \in InsertedRows(t) :
                /\ Cardinality(ListedAt(t, r)) = 1
                /\ \A k \in ListedAt(t, r) : export[k + 1] = ListedAs(t, r)
           /\ \A r1, r2 \in InsertedRows(t) :
                r1 < r2 => \A k1 \in ListedAt(t, r1), k2 \in ListedAt(t, r2) : k1 < k2

\* a file whose two rows need trimming, lower-casing and parsing "+5" was
\* inserted, and export lists the two normalized lines in row order
C12_Witness ==
  /\ pc[1] = "returned"
  /\ stream[1] = <<H_std, <<N_Bo, E_A_sp, A_120_sp>>, <<N_Al_sp, E_b, A_plus>>>>
  /\ ok[1] = 2
  /\ export = <<T_export, <<N_Bo, E_a, <<"1","2","0">>>>, <<N_Al, E_b, <<"5">>>>>>

\* ------------------------------------------------ C15: record constraints
\* the shape local@domain.tld: no whitespace, one "@" with text before it,
\* and after it a "." with text on both sides
EmailShape(e) ==
  /\ \A k \in 1..Len(e) : e[k] \notin Whitespace
  /\ Cardinality({k \in 1..Len(e) : e[k] = "@"}) = 1
  /\ LET a == CHOOSE k \in 1..Len(e) : e[k] = "@" IN
       /\ a > 1
       /\ \E d \in (a + 2)..(Len(e) - 1) : e[d] = "."

\* the constraints of a customers record
RecordOk(c) ==
  /\ Len(c.name) >= 2
  /\ c.name = strip(c.name)
  /\ c.email = lower(c.email)
  /\ c.email = strip(c.email)
  /\ EmailShape(c.email)
  /\ c.age \in 1..120

\* the rows t's loop has completed that fail one of the three checks
FailedRows(t) == {r \in Processed(t) : ~RowValid(t, r)}

\* C15: every record in the store, committed or inserted in a transaction
\* still open, satisfies the record constraints; a row that fails validation
\* has no record, and an invocation all of whose rows so far failed validation
\* has made no write: it holds no write lock and has inserted nothing.
C15_RecordConstraints ==
  \A t \in Inv :
    /\ \A k \in 1..Len(Visible(t)) : RecordOk(Visible(t)[k])
    /\ \A r \in FailedRows(t) : \A k \in RowsOf(Visible(t), t) : Visible(t)[k].row # r
    /\ pc[t] = "loop" /\ FailedRows(t) = Processed(t) => writer # t /\ pending[t] = <<>>

\* a file with a row of age 121 and a row whose fields need trimming and
\* lower-casing was imported: the first was refused, the second is stored
C15_Witness ==
  /\ pc[1] = "returned"
  /\ stream[1] = <<H_std, <<N_Al, E_a, A_121>>, <<N_Bo, E_A_sp, A_120_sp>>>>
  /\ errors[1] = <<[row |-> 2, msg |-> InvalidAge]>>
  /\ Len(customers) = 1
  /\ customers[1].name = N_Bo /\ customers[1].email = E_a /\ customers[1].age = 120

\* ------------------------------------------------------- C14: row numbers
\* the validation failure of the k-th data row of t's stream (blank lines are
\* no data rows), Valid when it has none
FailureOf(t, k) ==
  LET fn == fieldnames(stream[t])
      row == DataRows(stream[t])[k]
  IN validate(strip(get(fn, row, T_name)), lower(strip(get(fn, row, T_email))),
              strip(get(fn, row, T_age)))

\* C14: the header is row 1 and the k-th data row is row k + 1: every failure
\* carries the number of a data row, at least 2, with the failure of that data
\* row; every data row the loop has completed that fails validation is
\* reported under k + 1; the failures are in row order. For Scenario on a
\* store without Alice's email the summary is 1 inserted (Alice, row 2) and
\* the failures row 3 InvalidEmail, row 4 InvalidAge.
C14_RowNumbers ==
  \A t \in Inv :
    /\ \A e \in 1..Len(errors[t]) :
         LET k == errors[t][e].row - 1 IN
           /\ k >= 1
           /\ k <= Len(DataRows(stream[t]))
           /\ IF FailureOf(t, k) = Valid
              THEN errors[t][e].msg = DuplicateEmail
              ELSE errors[t][e].msg = FailureOf(t, k)
    /\ \A e1, e2 \in 1..Len(errors[t]) : e1 < e2 => errors[t][e1].row < errors[t][e2].row
    /\ pc[t] # "idle" /\ HeaderOk(stream[t]) =>
         \A k \in 1..Len(DataRows(stream[t])) :
           k + 1 < i[t] /\ FailureOf(t, k) # Valid =>
             \E e \in 1..Len(errors[t]) : errors[t][e] = [row |-> k + 1, msg |-> FailureOf(t, k)]
    /\ pc[t] = "returned" /\ stream[t] = Scenario =>
         /\ ok[t] = 1
         /\ errors[t] = <<[row |-> 3, msg |-> InvalidEmail], [row |-> 4, msg |-> InvalidAge]>>
         /\ Len(customers) = 1
         /\ customers[1].name = R_Alice[1] /\ customers[1].email = R_Alice[2]
         /\ customers[1].age = 30 /\ customers[1].row = 2

\* the import of Scenario has returned its summary
C14_Witness ==
  /\ pc[1] = "returned"
  /\ stream[1] = Scenario
  /\ ok[1] = 1
  /\ Len(errors[1]) = 2
  /\ Len(customers) = 1

\* ------------------------------------------------- C13: records are kept
\* C13: in every step of the server (uploads and notifications whose imports
\* return, fail on the header or abort, and the GET handlers) the committed
\* table keeps every record it has, with the same fields and at the same
\* place; it changes only in the step in which an import commits and returns,
\* and by exactly the records that import inserted and counted in ok.
C13_AppendOnly ==
  [][/\ Len(customers') >= Len(customers)
     /\ \A k \in 1..Len(customers) : customers'[k] = customers[k]
     /\ customers' # customers =>
          \E t \in Inv :
            /\ pc[t] = "loop" /\ pc'[t] = "returned"
            /\ request[t].kind \in {"upload", "obs"}
            /\ customers' = customers \o pending[t]
            /\ Len(pending[t]) = ok[t]]_vars

\* an upload inserted a record, a notification's import then added another
\* after one of its objects had failed, and the first record is still there
C13_Witness ==
  /\ request[1].kind = "upload" /\ reply[1].status = 200
  /\ request[2].kind = "obs" /\ reply[2].status = 200
  /\ Len(reply[2].body.items) = 2
  /\ "error" \in DOMAIN reply[2].body.items[1]
  /\ Len(customers) = 2
  /\ customers[1].inv = 1 /\ customers[2].inv = 2


\* ------------------------------------------------ C16: names not in .csv
\* the last four characters of fn are ".csv" in any letter case
EndsDotCsv(fn) ==
  LET n == Len(fn) IN
    /\ n >= 4
    /\ fn[n - 3] = "."
    /\ fn[n - 2] \in {"c", "C"}
    /\ fn[n - 1] \in {"s", "S"}
    /\ fn[n] \in {"v", "V"}

\* C16: an upload whose file name does not end in .csv is answered 400 in the
\* step that receives it, which leaves the store and the import untouched,
\* and its thread never enters import_csv_stream; a record of a notification
\* that has a bucket and a key not ending in .csv is passed in one step that
\* lists it as skipped, adds nothing to the totals and leaves the store and
\* the import untouched; obs_event calls import_csv_stream only at a record
\* whose key ends in .csv.
C16_NonCsvRejected ==
  [][\A t \in Inv :
       /\ (request'[t].kind = "upload" /\ request'[t].file
             /\ ~EndsDotCsv(request'[t].filename))
           => /\ reply'[t].status = 400
              /\ pc'[t] = "idle" /\ con'[t] = "none" /\ pending'[t] = <<>>
              /\ RowsOf(customers', t) = {}
              /\ request[t].kind = "none" =>
                    UNCHANGED <<customers, pending, writer, pc, stream, uploads>>
       /\ (request[t].kind = "obs" /\ pc[t] = "idle"
             /\ handler[t].k \in 1..Len(request[t].records)
             /\ handler'[t] # handler[t]
             /\ rec(t).bucket # <<>> /\ rec(t).key # <<>>
             /\ ~EndsDotCsv(rec(t).key))
           => /\ handler'[t] =
                   [handler[t] EXCEPT !.k = @ + 1,
                                      !.details = Append(@, [bucket |-> rec(t).bucket,
                                                             object |-> rec(t).key,
                                                             skipped |-> "not a .csv"])]
              /\ UNCHANGED <<customers, pending, writer, pc, stream, uploads>>
       /\ (request[t].kind = "obs" /\ pc[t] = "idle" /\ pc'[t] # "idle")
           => EndsDotCsv(rec(t).key)]_vars

\* the upload of a.csv.txt was answered 400 and a notification for the
\* object a.csv.txt was answered with that object skipped; the store is empty
C16_Witness ==
  /\ request[1].kind = "upload" /\ request[1].filename = F_csv_txt
  /\ reply[1].status = 400
  /\ request[2].kind = "obs" /\ reply[2].status = 200
  /\ reply[2].body.items =
       <<[bucket |-> B_uploads, object |-> F_csv_txt, skipped |-> "not a .csv"]>>
  /\ customers = <<>>


\* ------------------------------------------- C17: one record at a time
\* the records among the first n of a notification that have a bucket and a key
Listed(recs, n) ==
  SelectSeq(SubSeq(recs, 1, n), LAMBDA r : r.bucket # <<>> /\ r.key # <<>>)

\* the sum of field f over the items that have it
RECURSIVE SumOver(_, _)
SumOver(items, f) ==
  IF items = <<>> THEN 0
  ELSE (IF f \in DOMAIN Head(items) THEN Head(items)[f] ELSE 0) + SumOver(Tail(items), f)

\* C17: between two imports the items of obs_event are, in order, one per
\* record passed so far that has a bucket and a key: skipped when the key does
\* not end in .csv, else the summary of its import or the error that ended it
\* (fetch failure, header error, store fault); the totals are the sums of
\* inserted and errors over the items with a summary, and the records the
\* thread has committed are as many as its total inserted. The handler answers
\* only when every record has been passed, with 200, the totals and the items.
C17_RecordsIndependent ==
  \A t \in Inv :
    request[t].kind = "obs" =>
      LET recs == request[t].records
          h == handler[t]
          passed == Listed(recs, h.k - 1)
      IN /\ pc[t] = "idle" =>
              /\ Len(h.details) = Len(passed)
              /\ \A j \in 1..Len(passed) :
                   /\ h.details[j].bucket = passed[j].bucket
                   /\ h.details[j].object = passed[j].key
                   /\ IF EndsDotCsv(passed[j].key)
                      THEN \/ DOMAIN h.details[j] = {"bucket", "object", "inserted", "errors"}
                           \/ DOMAIN h.details[j] = {"bucket", "object", "error"}
                      ELSE DOMAIN h.details[j] = {"bucket", "object", "skipped"}
              /\ h.total_ok = SumOver(h.details, "inserted")
              /\ h.total_err = SumOver(h.details, "errors")
              /\ Cardinality(RowsOf(customers, t)) = h.total_ok
         /\ reply[t].status # 0 =>
              /\ reply[t].status = 200
              /\ pc[t] = "idle"
              /\ h.k = Len(recs) + 1
              /\ reply[t].body = [ok |-> SumOver(h.details, "inserted"),
                                  errors |-> SumOver(h.details, "errors"),
                                  items |-> h.details]

\* a notification of two objects was answered 200: the import of the first
\* was ended by a store fault, the second was imported with one row inserted
\* and one refused
C17_Witness ==
  /\ request[1].kind = "obs"
  /\ Len(request[1].records) = 2
  /\ reply[1].status = 200
  /\ reply[1].body.ok = 1 /\ reply[1].body.errors = 1
  /\ reply[1].body.items =
       <<[bucket |-> B_uploads, object |-> F_CSV, error |-> "disk I/O error"],
         [bucket |-> B_uploads, object |-> F_CSV, inserted |-> 1, errors |-> 1]>>
  /\ Len(customers) = 1

====
